---- MODULE Spec2Model ----
(***************************************************************************)
(* Model of homework.py: the fitness tracker module.  A training record is *)
(* built by read_package from a workout code and a list of field values,   *)
(* main() builds its InfoMessage and prints the formatted line, and the    *)
(* driver loop does this for each package in list order.                   *)
(*                                                                         *)
(* Python numbers are modelled as exact rationals n/d (d > 0, lowest       *)
(* terms); binary floating-point rounding error (below 1e-9 on every input *)
(* used here) is abstracted.  A field that is not a number is modelled by  *)
(* a str value, on which every arithmetic use in the formulas raises       *)
(* TypeError.                                                              *)
(***************************************************************************)
EXTENDS Integers, Sequences, FiniteSets, TLC

VARIABLES packages, i, pc, training, info, out, exc

vars == <<packages, i, pc, training, info, out, exc>>

(***************************************************************************)
(* Bounds.                                                                 *)
(***************************************************************************)
MaxPackages == 2

(***************************************************************************)
(* Numbers.                                                                *)
(***************************************************************************)
Abs(n) == IF n < 0 THEN -n ELSE n

RECURSIVE Gcd(_, _)
Gcd(a, b) == IF b = 0 THEN a ELSE Gcd(b, a % b)

\* the number n/d in lowest terms with a positive denominator (d # 0)
R(n, d) ==
    LET g == Gcd(Abs(n), Abs(d))
        s == IF d < 0 THEN -1 ELSE 1
    IN  [num |-> TRUE, n |-> s * (n \div g), d |-> s * (d \div g)]

N(n) == R(n, 1)

\* a str field value: not a number
StrVal == [num |-> FALSE, n |-> 0, d |-> 1]

Add(a, b) == R(a.n * b.d + b.n * a.d, a.d * b.d)
Sub(a, b) == R(a.n * b.d - b.n * a.d, a.d * b.d)
Mul(a, b) == R(a.n * b.n, a.d * b.d)
\* Python's `/` (b # 0)
TrueDiv(a, b) == R(a.n * b.d, a.d * b.n)
\* mutant: `/` written for `//`
FloorDiv_True(a, b) == R(a.n * b.d, a.d * b.n)

\* Python's `//` on numbers: the quotient rounded toward negative infinity
FloorDiv(a, b) ==
    LET q == TrueDiv(a, b) IN N(q.n \div q.d)
\* Python's `** 2`
Pow2(a) == Mul(a, a)
Le(a, b) == a.n * b.d <= b.n * a.d
Lt(a, b) == a.n * b.d < b.n * a.d
IsZero(a) == a.num /\ a.n = 0
IsInt(a) == a.num /\ a.d = 1

\* the first exception of a sequence of evaluations, "none" when all succeed
RECURSIVE FirstRaise(_)
FirstRaise(s) ==
    IF s = <<>> THEN "none"
    ELSE IF Head(s) # "none" THEN Head(s) ELSE FirstRaise(Tail(s))

(***************************************************************************)
(* Class attributes.                                                       *)
(***************************************************************************)
hour_min_change == 60
M_IN_KM == 1000
Training_LEN_STEP == R(65, 100)
Swimming_LEN_STEP == R(138, 100)
running_calories_multiplier == 18
running_calories_diminution == 20
walking_weight_multiplier == R(35, 1000)
walking_second_multiplier == R(29, 1000)
coeff_calorie_1 == R(11, 10)
coeff_calorie_2 == 2

\* self.LEN_STEP: Swimming overrides the attribute of Training
LEN_STEP(cls) == IF cls = "Swimming" THEN Swimming_LEN_STEP ELSE Training_LEN_STEP

(***************************************************************************)
(* Constructors.  A record carries its class name, its instance fields and *)
(* the LEN_STEP its class resolves to.                                     *)
(***************************************************************************)
None == [cls |-> "NoneType"]

Running(data) ==
    [cls |-> "Running", LEN_STEP |-> LEN_STEP("Running"),
     action |-> data[1], duration |-> data[2], weight |-> data[3]]

SportsWalking(data) ==
    [cls |-> "SportsWalking", LEN_STEP |-> LEN_STEP("SportsWalking"),
     action |-> data[1], duration |-> data[2], weight |-> data[3],
     height |-> data[4]]

\* mutant: the two pool parameters assigned in the wrong order
Swimming_Swapped(data) ==
    [cls |-> "Swimming", LEN_STEP |-> LEN_STEP("Swimming"),
     action |-> data[1], duration |-> data[2], weight |-> data[3],
     length_pool |-> data[5], count_pool |-> data[4]]

Swimming(data) ==
    [cls |-> "Swimming", LEN_STEP |-> LEN_STEP("Swimming"),
     action |-> data[1], duration |-> data[2], weight |-> data[3],
     length_pool |-> data[4], count_pool |-> data[5]]

\* number of positional parameters of each __init__ (self excluded)
Arity(cls) ==
    CASE cls = "Running" -> 3
      [] cls = "SportsWalking" -> 4
      [] cls = "Swimming" -> 5

(***************************************************************************)
(* Training methods.  Each method has a value operator, defined when the   *)
(* evaluation raises nothing, and a _raises operator naming the exception  *)
(* its evaluation raises ("none" when it returns).                         *)
(***************************************************************************)
\* mutant: the step length of the base class, whatever the class of self
get_distance_BaseStep(self) ==
    TrueDiv(Mul(self.action, Training_LEN_STEP), N(M_IN_KM))

get_distance(self) == TrueDiv(Mul(self.action, self.LEN_STEP), N(M_IN_KM))

get_distance_raises(self) ==
    IF ~self.action.num THEN "TypeError" ELSE "none"

\* the `/ self.duration` at the end of both get_mean_speed methods
div_duration_raises(self) ==
    IF ~self.duration.num THEN "TypeError"
    ELSE IF IsZero(self.duration) THEN "ZeroDivisionError" ELSE "none"

Training_get_mean_speed(self) == TrueDiv(get_distance(self), self.duration)

Training_get_mean_speed_raises(self) ==
    FirstRaise(<<get_distance_raises(self), div_duration_raises(self)>>)

\* mutant: the override missing, the speed of the base class is used
Swimming_get_mean_speed_Inherited(self) ==
    TrueDiv(get_distance(self), self.duration)

Swimming_get_mean_speed(self) ==
    LET distance_m == Mul(self.length_pool, self.count_pool)
    IN  TrueDiv(TrueDiv(distance_m, N(M_IN_KM)), self.duration)

\* str * str, str * float and (str * int) / 1000 all raise TypeError
Swimming_get_mean_speed_raises(self) ==
    FirstRaise(<<IF ~self.length_pool.num \/ ~self.count_pool.num
                 THEN "TypeError" ELSE "none",
                 div_duration_raises(self)>>)

get_mean_speed(self) ==
    IF self.cls = "Swimming" THEN Swimming_get_mean_speed(self)
    ELSE Training_get_mean_speed(self)

get_mean_speed_raises(self) ==
    IF self.cls = "Swimming" THEN Swimming_get_mean_speed_raises(self)
    ELSE Training_get_mean_speed_raises(self)

\* mutant: the diminution added instead of subtracted
Running_get_spent_calories_Plus(self) ==
    LET duration_min == Mul(self.duration, N(hour_min_change))
        spent_cal_min ==
            TrueDiv(Mul(Add(Mul(N(running_calories_multiplier),
                                get_mean_speed(self)),
                            N(running_calories_diminution)),
                        self.weight),
                    N(M_IN_KM))
    IN  Mul(spent_cal_min, duration_min)

Running_get_spent_calories(self) ==
    LET duration_min == Mul(self.duration, N(hour_min_change))
        spent_cal_min ==
            TrueDiv(Mul(Sub(Mul(N(running_calories_multiplier),
                                get_mean_speed(self)),
                            N(running_calories_diminution)),
                        self.weight),
                    N(M_IN_KM))
    IN  Mul(spent_cal_min, duration_min)

\* str * 60 is a str (no exception); the failure comes with the arithmetic
Running_get_spent_calories_raises(self) ==
    FirstRaise(<<get_mean_speed_raises(self),
                 IF ~self.weight.num THEN "TypeError" ELSE "none">>)

\* the term `self.get_mean_speed() ** 2 // self.height`
walking_height_term(self) ==
    FloorDiv(Pow2(get_mean_speed(self)), self.height)

SportsWalking_get_spent_calories(self) ==
    LET duration_min == Mul(self.duration, N(hour_min_change))
    IN  Mul(Add(Mul(walking_weight_multiplier, self.weight),
                Mul(Mul(walking_height_term(self), walking_second_multiplier),
                    self.weight)),
            duration_min)

SportsWalking_get_spent_calories_raises(self) ==
    FirstRaise(<<IF ~self.weight.num THEN "TypeError" ELSE "none",
                 get_mean_speed_raises(self),
                 IF ~self.height.num THEN "TypeError"
                 ELSE IF IsZero(self.height) THEN "ZeroDivisionError"
                 ELSE "none">>)

Swimming_get_spent_calories(self) ==
    Mul(Mul(Add(get_mean_speed(self), coeff_calorie_1), N(coeff_calorie_2)),
        self.weight)

Swimming_get_spent_calories_raises(self) ==
    FirstRaise(<<get_mean_speed_raises(self),
                 IF ~self.weight.num THEN "TypeError" ELSE "none">>)

get_spent_calories(self) ==
    CASE self.cls = "Running" -> Running_get_spent_calories(self)
      [] self.cls = "SportsWalking" -> SportsWalking_get_spent_calories(self)
      [] self.cls = "Swimming" -> Swimming_get_spent_calories(self)

get_spent_calories_raises(self) ==
    CASE self.cls = "Running" -> Running_get_spent_calories_raises(self)
      [] self.cls = "SportsWalking" ->
             SportsWalking_get_spent_calories_raises(self)
      [] self.cls = "Swimming" -> Swimming_get_spent_calories_raises(self)

\* the InfoMessage built from a record
show_training_info(self) ==
    [training_type |-> self.cls,
     duration |-> self.duration,
     distance |-> get_distance(self),
     speed |-> get_mean_speed(self),
     calories |-> get_spent_calories(self)]

\* None has no attribute show_training_info; the arguments are evaluated
\* left to right
show_training_info_raises(self) ==
    IF self = None THEN "AttributeError"
    ELSE FirstRaise(<<get_distance_raises(self),
                      get_mean_speed_raises(self),
                      get_spent_calories_raises(self)>>)

NoInfo == [training_type |-> "NoneType"]

(***************************************************************************)
(* InfoMessage.get_message: each number rendered by the format `.3f`.      *)
(***************************************************************************)
\* the number rounded to thousandths (ties to even), as sign, integer
\* digits and exactly three fraction digits
Format3f(x) ==
    LET whole == Abs(x.n) \div x.d
        m == (Abs(x.n) % x.d) * 1000
        q == whole * 1000 + (m \div x.d)
        r == m % x.d
        t == IF 2 * r > x.d THEN q + 1
             ELSE IF 2 * r = x.d THEN q + (q % 2)
             ELSE q
    IN  [neg |-> x.n < 0, int |-> t \div 1000, frac |-> t % 1000]

get_message(msg) ==
    [kind |-> "summary",
     training_type |-> msg.training_type,
     duration |-> Format3f(msg.duration),
     distance |-> Format3f(msg.distance),
     speed |-> Format3f(msg.speed),
     calories |-> Format3f(msg.calories)]

\* `:.3f` applied to a str raises ValueError; never reached, because the
\* str field has already failed in show_training_info
get_message_raises(msg) ==
    IF ~msg.duration.num THEN "ValueError" ELSE "none"

(***************************************************************************)
(* read_package and main.                                                  *)
(***************************************************************************)
Diag(text) == [kind |-> "diag", text |-> text]

training_type ==
    [c \in {"SWM", "RUN", "WLK"} |->
        CASE c = "SWM" -> "Swimming"
          [] c = "RUN" -> "Running"
          [] c = "WLK" -> "SportsWalking"]

Construct(cls, data) ==
    CASE cls = "Running" -> Running(data)
      [] cls = "SportsWalking" -> SportsWalking(data)
      [] cls = "Swimming" -> Swimming(data)

\* mutant: surplus positional arguments are dropped instead of rejected
call_constructor_ExtraIgnored(cls, data) ==
    IF Len(data) < Arity(cls)
    THEN [ret |-> None, printed |-> <<Diag("Unknown training data")>>,
          raised |-> "none"]
    ELSE [ret |-> Construct(cls, data), printed |-> <<>>, raised |-> "none"]

\* `cls(*data)` inside the try: binding the arguments to the parameters of
\* __init__ raises TypeError when their number differs, which the except
\* clause turns into a diagnostic; the value is returned by the else clause
call_constructor(cls, data) ==
    IF Len(data) # Arity(cls)
    THEN [ret |-> None, printed |-> <<Diag("Unknown training data")>>,
          raised |-> "none"]
    ELSE [ret |-> Construct(cls, data), printed |-> <<>>, raised |-> "none"]

\* mutant: no handler for KeyError
read_package_KeyErrorEscapes(workout_type, data) ==
    IF workout_type \notin DOMAIN training_type
    THEN [ret |-> None, printed |-> <<>>, raised |-> "KeyError"]
    ELSE call_constructor(training_type[workout_type], data)

\* what a call returns, prints and raises to its caller
read_package(workout_type, data) ==
    IF workout_type \notin DOMAIN training_type
    THEN \* except KeyError
         [ret |-> None, printed |-> <<Diag("Unknown training type")>>,
          raised |-> "none"]
    ELSE call_constructor(training_type[workout_type], data)

main(t) ==
    LET e1 == show_training_info_raises(t)
        msg == show_training_info(t)
        e2 == get_message_raises(msg)
    IN  IF e1 # "none"
        THEN [info |-> NoInfo, printed |-> <<>>, raised |-> e1]
        ELSE IF e2 # "none"
        THEN [info |-> msg, printed |-> <<>>, raised |-> e2]
        ELSE [info |-> msg, printed |-> <<get_message(msg)>>,
              raised |-> "none"]

(***************************************************************************)
(* The driver.                                                             *)
(***************************************************************************)
Codes == {"SWM", "RUN", "WLK", "XYZ"}

\* field lists: the three samples of the driver, and lists of other
\* lengths, values and types
FieldLists ==
    { <<N(720), N(1), N(80), N(25), N(40)>>,
      <<N(15000), N(1), N(75)>>,
      <<N(9000), N(1), N(75), N(180)>>,
      <<N(9000), R(1, 2), N(75), N(2)>>,
      <<StrVal, N(1), N(75)>>,
      <<N(9000), N(1), N(75), StrVal>>,
      <<N(15000), N(0), N(75)>>,
      <<>> }

Entries == [workout_type : Codes, data : FieldLists]

PackageLists ==
    UNION { [1..n -> Entries] : n \in 0..MaxPackages }

Init ==
    /\ packages \in PackageLists
    /\ i = 1
    /\ pc = "read_package"
    /\ training = None
    /\ info = NoInfo
    /\ out = <<>>
    /\ exc = "none"

\* `for workout_type, data in packages: training = read_package(...)`
ReadPackage ==
    /\ pc = "read_package"
    /\ i <= Len(packages)
    /\ LET r == read_package(packages[i].workout_type, packages[i].data)
       IN  /\ training' = r.ret
           /\ out' = out \o r.printed
           /\ exc' = r.raised
           /\ pc' = IF r.raised = "none" THEN "main" ELSE "crashed"
    /\ info' = NoInfo
    /\ UNCHANGED <<packages, i>>

\* `main(training)`, then the next iteration; an exception ends the program
Main ==
    /\ pc = "main"
    /\ LET r == main(training)
       IN  /\ info' = r.info
           /\ out' = out \o r.printed
           /\ exc' = r.raised
           /\ pc' = IF r.raised = "none" THEN "read_package" ELSE "crashed"
           /\ i' = IF r.raised = "none" THEN i + 1 ELSE i
    /\ UNCHANGED <<packages, training>>

\* the loop is exhausted
Finish ==
    /\ pc = "read_package"
    /\ i > Len(packages)
    /\ pc' = "done"
    /\ UNCHANGED <<packages, i, training, info, out, exc>>

Next == ReadPackage \/ Main \/ Finish

Spec == Init /\ [][Next]_vars

(***************************************************************************)
(* Properties.                                                             *)
(***************************************************************************)
RecognizedCodes == {"SWM", "RUN", "WLK"}

\* the arity the specification gives for each code
SpecArity(code) ==
    CASE code = "RUN" -> 3
      [] code = "WLK" -> 4
      [] code = "SWM" -> 5

\* the variant the specification gives for each code
SpecVariant(code) ==
    CASE code = "RUN" -> "Running"
      [] code = "WLK" -> "SportsWalking"
      [] code = "SWM" -> "Swimming"

\* the driver is about to dispatch the current entry
AtDispatch == pc = "read_package" /\ i <= Len(packages)

AllNumeric(data) == \A k \in 1..Len(data) : data[k].num

Last(s) == s[Len(s)]

SummaryLines(s) == SelectSeq(s, LAMBDA l : l.kind = "summary")

\* main has returned for the current record
InfoBuilt(cls) == info.training_type = cls /\ training.cls = cls

\* C1: when dispatch produced no record for an entry, the driver builds no
\* summary, prints nothing, does not fault and goes on to the next entry.
C1_AbsentRecordSkipped ==
    [][(pc = "main" /\ training = None) =>
          /\ pc' = "read_package"
          /\ i' = i + 1
          /\ out' = out
          /\ info' = NoInfo
          /\ exc' = "none"]_vars

\* C2: for a code that is not SWM, RUN or WLK, whatever the fields,
\* read_package prints "Unknown training type", returns None and raises
\* nothing to the driver.
C2_UnknownType ==
    [][(AtDispatch /\ packages[i].workout_type \notin RecognizedCodes) =>
          /\ training' = None
          /\ out' = Append(out, Diag("Unknown training type"))
          /\ exc' = "none"
          /\ pc' = "main"]_vars

C2_Witness ==
    /\ pc = "main"
    /\ packages[i].workout_type = "XYZ"
    /\ packages[i].data # <<>>
    /\ training = None
    /\ out # <<>>
    /\ Last(out) = Diag("Unknown training type")

\* C3: for a recognized code and a field list whose length is not the
\* variant's arity, read_package prints "Unknown training data", returns
\* None and raises nothing to the driver.
C3_WrongArity ==
    [][(/\ AtDispatch
        /\ packages[i].workout_type \in RecognizedCodes
        /\ Len(packages[i].data) # SpecArity(packages[i].workout_type)) =>
          /\ training' = None
          /\ out' = Append(out, Diag("Unknown training data"))
          /\ exc' = "none"
          /\ pc' = "main"]_vars

C3_Witness ==
    /\ pc = "main"
    /\ packages[i].workout_type = "RUN"
    /\ Len(packages[i].data) = 5
    /\ training = None
    /\ out # <<>>
    /\ Last(out) = Diag("Unknown training data")

\* C4: for a recognized code and a field list of the right length holding a
\* field that is not a number, read_package prints "Unknown training data"
\* and returns None.
C4_WrongTypeRejected ==
    [][(/\ AtDispatch
        /\ packages[i].workout_type \in RecognizedCodes
        /\ Len(packages[i].data) = SpecArity(packages[i].workout_type)
        /\ ~AllNumeric(packages[i].data)) =>
          /\ training' = None
          /\ out' = Append(out, Diag("Unknown training data"))]_vars

\* C5: when the driver has stopped, the printed summary lines are, in list
\* order, one line for each entry whose dispatch yields a record.
Dispatched ==
    SelectSeq(packages,
              LAMBDA e : read_package(e.workout_type, e.data).ret # None)

C5_OneLinePerDispatched ==
    pc \in {"done", "crashed"} =>
        /\ Len(SummaryLines(out)) = Len(Dispatched)
        /\ \A k \in 1..Len(Dispatched) :
              k <= Len(SummaryLines(out)) =>
                  SummaryLines(out)[k].training_type
                      = SpecVariant(Dispatched[k].workout_type)

\* C6: for a recognized code and a field list of the variant's arity,
\* read_package returns a record of the variant mapped to the code, with the
\* fields assigned positionally, and prints no diagnostic.
C6_Constructed ==
    [][(/\ AtDispatch
        /\ packages[i].workout_type \in RecognizedCodes
        /\ Len(packages[i].data) = SpecArity(packages[i].workout_type)) =>
          LET code == packages[i].workout_type
              data == packages[i].data
          IN  /\ training'.cls = SpecVariant(code)
              /\ training'.action = data[1]
              /\ training'.duration = data[2]
              /\ training'.weight = data[3]
              /\ code = "WLK" => training'.height = data[4]
              /\ code = "SWM" => /\ training'.length_pool = data[4]
                                 /\ training'.count_pool = data[5]
              /\ out' = out
              /\ exc' = "none"
              /\ pc' = "main"]_vars

C6_Witness ==
    /\ pc = "main"
    /\ packages[i].workout_type = "SWM"
    /\ packages[i].data = <<N(720), N(1), N(80), N(25), N(40)>>
    /\ training.cls = "Swimming"
    /\ training.length_pool = N(25)
    /\ training.count_pool = N(40)

\* the three values of a valid Running record, by the formulas of the claim
RunningFormulas ==
    (/\ InfoBuilt("Running")
     /\ Lt(N(0), training.duration)
     /\ Lt(N(0), training.weight)) =>
        LET distance == TrueDiv(Mul(training.action, R(65, 100)), N(1000))
            speed == TrueDiv(distance, training.duration)
        IN  /\ info.distance = distance
            /\ info.speed = speed
            /\ info.calories =
                   Mul(TrueDiv(Mul(Sub(Mul(N(18), speed), N(20)),
                                   training.weight),
                               N(1000)),
                       Mul(training.duration, N(60)))

RunningSample ==
    /\ InfoBuilt("Running")
    /\ training.action = N(15000)
    /\ training.duration = N(1)
    /\ training.weight = N(75)

\* C7 as stated: the Running formulas hold and the sample ("RUN", [15000, 1,
\* 75]) gives 9.75, 9.75 and 654.75.
C7_Original ==
    /\ RunningFormulas
    /\ RunningSample =>
          /\ info.distance = R(975, 100)
          /\ info.speed = R(975, 100)
          /\ info.calories = R(65475, 100)

\* C7 amended: for every valid Running record get_distance is
\* action*0.65/1000, get_mean_speed is distance/duration and
\* get_spent_calories is ((18*speed - 20)*weight/1000)*(duration*60); the
\* sample ("RUN", [15000, 1, 75]) gives 9.75, 9.75 and 699.75, printed as
\* 9.750, 9.750 and 699.750.
C7_RunningMetrics ==
    /\ RunningFormulas
    /\ RunningSample =>
          /\ info.distance = R(975, 100)
          /\ info.speed = R(975, 100)
          /\ info.calories = R(69975, 100)
          /\ Last(out).kind = "summary"
          /\ Last(out).distance = [neg |-> FALSE, int |-> 9, frac |-> 750]
          /\ Last(out).calories = [neg |-> FALSE, int |-> 699, frac |-> 750]

C7_Witness ==
    /\ RunningSample
    /\ pc = "read_package"
    /\ exc = "none"
    /\ Last(out).kind = "summary"

\* the term that the walking calories returned for the record contain in
\* the place of speed^2 divided by height:
\* calories = (0.035*weight + term*0.029*weight)*(duration*60)
WalkingTermUsed ==
    TrueDiv(Sub(TrueDiv(info.calories, Mul(training.duration, N(60))),
                Mul(R(35, 1000), training.weight)),
            Mul(R(29, 1000), training.weight))

ValidWalking ==
    /\ InfoBuilt("SportsWalking")
    /\ Lt(N(0), training.duration)
    /\ Lt(N(0), training.weight)
    /\ Lt(N(0), training.height)

\* C8: in the walking calories the quotient of speed^2 by height is a floor
\* division: 7 // 2 is 3 and not 3.5, and for every valid Walking record the
\* term is an integer, no greater than the true quotient and greater than
\* the true quotient minus one.
C8_FloorDivision ==
    ValidWalking =>
        LET quotient == TrueDiv(Pow2(info.speed), training.height)
        IN  /\ IsInt(WalkingTermUsed)
            /\ Le(WalkingTermUsed, quotient)
            /\ Lt(quotient, Add(WalkingTermUsed, N(1)))
            /\ WalkingTermUsed = walking_height_term(training)
            /\ FloorDiv(N(7), N(2)) = N(3)
            /\ FloorDiv(N(7), N(2)) # R(7, 2)

\* a valid Walking record whose quotient is not an integer and whose term
\* is not zero
C8_Witness ==
    /\ ValidWalking
    /\ training.height = N(2)
    /\ ~IsInt(TrueDiv(Pow2(info.speed), training.height))
    /\ Lt(N(0), WalkingTermUsed)

OtherActions == {N(0), N(1), N(1000), N(15000)}

NumericSwimming ==
    /\ InfoBuilt("Swimming")
    /\ Lt(N(0), training.duration)
    /\ training.weight.num

\* C9: Swimming records that differ only in action have the same mean speed
\* and the same calories: speed is (length_pool*count_pool/1000)/duration
\* and calories is (speed + 1.1)*2*weight.
C9_ActionIndependent ==
    NumericSwimming =>
        /\ info.speed =
               TrueDiv(TrueDiv(Mul(training.length_pool, training.count_pool),
                               N(1000)),
                       training.duration)
        /\ info.calories =
               Mul(Mul(Add(info.speed, R(11, 10)), N(2)), training.weight)
        /\ \A a \in OtherActions :
              LET other == show_training_info([training EXCEPT !.action = a])
              IN  /\ other.speed = info.speed
                  /\ other.calories = info.calories
        /\ training = Swimming(<<N(720), N(1), N(80), N(25), N(40)>>) =>
              /\ info.speed = N(1)
              /\ info.calories = N(336)

C9_Witness ==
    /\ NumericSwimming
    /\ training.action = N(720)
    /\ training.action \notin OtherActions
    /\ Last(out).kind = "summary"
    /\ Last(out).training_type = "Swimming"

\* the summary values of the record, had its LEN_STEP been another value
OtherSteps == {Training_LEN_STEP, N(1), N(0)}

InfoWithStep(step) == show_training_info([training EXCEPT !.LEN_STEP = step])

\* C10 as stated: none of the summary values of a Swimming record depends
\* on Swimming.LEN_STEP.
C10_Original ==
    NumericSwimming =>
        \A step \in OtherSteps : InfoWithStep(step) = info

\* C10 amended: of the summary values of a Swimming record, duration, speed
\* and calories do not depend on Swimming.LEN_STEP; the distance does: it is
\* action*1.38/1000, and changes with the constant when action is not zero.
C10_OnlyDistanceUsesStep ==
    NumericSwimming =>
        /\ training.LEN_STEP = R(138, 100)
        /\ info.distance = TrueDiv(Mul(training.action, R(138, 100)), N(1000))
        /\ \A step \in OtherSteps :
              /\ InfoWithStep(step).duration = info.duration
              /\ InfoWithStep(step).speed = info.speed
              /\ InfoWithStep(step).calories = info.calories
              /\ ~IsZero(training.action) =>
                     InfoWithStep(step).distance # info.distance

C10_Witness ==
    /\ NumericSwimming
    /\ ~IsZero(training.action)
    /\ Last(out).kind = "summary"
    /\ Last(out).training_type = "Swimming"
    /\ Last(out).distance = [neg |-> FALSE, int |-> 0, frac |-> 994]

====
